---------------------------- MODULE Spec2Model ----------------------------
(* A model of ANKI_to_PDF.py: note extraction over AnkiConnect              *)
(* (extract_anki_data_connect), image sizing (ResizableImage.__init__),     *)
(* the media cache (get_media_data), PDF assembly (create_pdf_connect) and  *)
(* the OCR pass (apply_ocr_to_pdf).  The program is single-threaded; each    *)
(* function is a small state machine whose program counter is a variable.   *)
EXTENDS Integers, Sequences, FiniteSets, TLC

VARIABLES
    \* ---- apply_ocr_to_pdf -------------------------------------------------
    opc,          \* position inside apply_ocr_to_pdf
    available,    \* whether "import ocrmypdf" succeeds in this installation
    force,        \* the force parameter of the call
    lang,         \* the lang parameter of the call
    pdf,          \* what the file at pdf_path holds
    temp,         \* what the file at pdf_path + ".ocr.tmp.pdf" holds
    exc,          \* the message class of the exception being handled
    invocations,  \* the calls of ocrmypdf.ocr made so far, each with its outcome
    replaced,     \* how often os.replace moved the temporary file over pdf_path
    \* ---- ResizableImage.__init__ -----------------------------------------
    rpc,          \* position inside ResizableImage.__init__
    max_width,    \* parameter (a rational <<num, den>>)
    max_height,   \* parameter (a rational, or None)
    img_size,     \* what ImageReader.getSize() gives: <<w, h>>, or None on failure
    drawWidth,    \* self.drawWidth
    drawHeight,   \* self.drawHeight
    stages,       \* <<drawWidth, drawHeight>> as it stood after each stage
    \* ---- extract_anki_data_connect ----------------------------------------
    xpc,          \* position inside extract_anki_data_connect
    collection,   \* the cards of the deck as Anki holds them, in findCards order
    card_ids,     \* the result of findCards: card ids, or None
    i,            \* the loop variable of the batch loop (a 0-based offset)
    cards_info,   \* the result of cardsInfo for the current batch, or None
    j,            \* the position of the item loop in cards_info (1-based)
    extracted_notes, \* the dict note id -> record, as its values in insertion order
    xresult,      \* what the function returned; "unset" until it returns
    batches,      \* for each batch requested so far, whether cardsInfo answered
    console,      \* the WARN lines printed by the function
    \* ---- create_pdf_connect -----------------------------------------------
    ppc,          \* position inside create_pdf_connect; "idle" between calls
    cards_data,   \* parameter: the list of records
    ci,           \* the loop variable i of the card loop (1-based)
    ri,           \* the position of the image loop in q_images / a_images
    story,        \* the list of flowables handed to doc.build
    report,       \* what the _errors.txt file beside the PDF holds
    written,      \* how often the current call opened _errors.txt for writing
    log_at_call,  \* len(error_log) when the current call began
    rendered,     \* how many records were passed to create_pdf_connect so far
    run_no,       \* how many calls with a non-empty list were made so far
    calls,        \* the calls of get_media_data so far, each with its result
    \* ---- module globals ----------------------------------------------------
    error_log,    \* the global error_log: <<[note_id, kind, file]>>
    IMAGE_CACHE   \* the global IMAGE_CACHE: file name -> data, "absent" if no key

ocrVars   == <<opc, available, force, lang, pdf, temp, exc, invocations, replaced>>
placeVars == <<rpc, max_width, max_height, img_size, drawWidth, drawHeight, stages>>
extractVars == <<xpc, collection, card_ids, i, cards_info, j, extracted_notes,
                 xresult, batches, console>>
pdfVars   == <<ppc, cards_data, ci, ri, story, report, written, log_at_call, rendered, run_no,
               calls>>
globals   == <<error_log, IMAGE_CACHE>>
vars      == <<ocrVars, placeVars, extractVars, pdfVars, globals>>

None == "None"

\* A value that is None, a list, or not yet assigned.
NoneValue == [none |-> TRUE]
Unset     == [unset |-> TRUE]
List(q)   == [list |-> q]
IsList(v) == DOMAIN v = {"list"}

-----------------------------------------------------------------------------
(* Rational numbers as <<numerator, denominator>>, denominator > 0, in       *)
(* lowest terms.  Python computes the sizes in binary floating point; the    *)
(* model computes them exactly.                                              *)

RECURSIVE Gcd(_, _)
Gcd(a, b) ==
    IF b = 0 THEN a ELSE Gcd(b, a % b)

Abs(x) ==
    IF x < 0 THEN -x ELSE x

Norm(n, d) ==
    LET g == Gcd(Abs(n), Abs(d))
        s == IF d < 0 THEN -1 ELSE 1
    IN  IF n = 0 THEN <<0, 1>> ELSE <<(s * n) \div g, (s * d) \div g>>

Rat(n)    == <<n, 1>>
RMul(x, y) == Norm(x[1] * y[1], x[2] * y[2])
RDiv(x, y) == Norm(x[1] * y[2], x[2] * y[1])
RLt(x, y)  == x[1] * y[2] < y[1] * x[2]
RLeq(x, y) == x[1] * y[2] <= y[1] * x[2]
RMin(x, y) == IF RLeq(x, y) THEN x ELSE y
RPos(x)    == x[1] > 0

-----------------------------------------------------------------------------
(*                      ResizableImage.__init__                              *)

\* A4[1] * 0.8 in points: A4 is 297 mm high, 1 mm = 72/25.4 pt, so
\* 297 * 72 * 0.8 / 25.4 = 85536 / 127 (about 673.51).
A4_H80_NUM == 85536
A4_H80_DEN == 127
PageLimit == <<A4_H80_NUM, A4_H80_DEN>>

\* doc.width * 0.9 for A4 with 1.5 cm margins: 180 mm * 0.9 = 58320/127 pt.
AVAIL_W90_NUM == 58320

MaxDim == 3          \* natural sizes 0 .. MaxDim are all tried
TallDims == {700, 1400}

NaturalDims == (0 .. MaxDim) \cup TallDims
MaxWidths   == {Rat(1), Rat(2), <<1, 2>>, <<AVAIL_W90_NUM, A4_H80_DEN>>}
MaxHeights  == {None, Rat(0), Rat(1), <<3, 2>>, Rat(500), Rat(800)}

\* line 88
AspectRatio(size) == Norm(size[2], size[1])

\* lines 89-90: width first
Stage1(size, mw) ==
    LET w == RMin(mw, Rat(size[1]))
    IN  <<w, RMul(w, AspectRatio(size))>>

\* lines 91-93: the explicit max_height; "if self.max_height" is false for
\* None and for 0
Stage2Mutant(size, mh, d) ==
    IF mh # None /\ mh[1] # 0 /\ RLt(mh, d[2])
    THEN <<d[1], mh>>
    ELSE d
Stage2(size, mh, d) ==
    IF mh # None /\ mh[1] # 0 /\ RLt(mh, d[2])
    THEN <<RDiv(mh, AspectRatio(size)), mh>>
    ELSE d

\* lines 94-97: at most 80% of the A4 height
Stage3(d) ==
    IF RLt(PageLimit, d[2])
    THEN LET scale_factor == RDiv(PageLimit, d[2])
         IN  <<RMul(d[1], scale_factor), RMul(d[2], scale_factor)>>
    ELSE d

PlaceStart ==
    /\ rpc = "read"
    /\ max_width \in MaxWidths
    /\ max_height \in MaxHeights
    /\ img_size \in {None} \cup (NaturalDims \X NaturalDims)
    /\ drawWidth = Rat(0)
    /\ drawHeight = Rat(0)
    /\ stages = <<>>

\* lines 74-87: the sizes are read; a read failure or a size that is not
\* positive leaves drawWidth = drawHeight = 0
ReadSize ==
    /\ rpc = "read"
    /\ rpc' = IF img_size # None /\ img_size[1] > 0 /\ img_size[2] > 0
              THEN "stage1" ELSE "done"
    /\ UNCHANGED <<max_width, max_height, img_size, drawWidth, drawHeight, stages>>
    /\ UNCHANGED <<ocrVars, extractVars, pdfVars, globals>>

FitWidth ==
    /\ rpc = "stage1"
    /\ LET d == Stage1(img_size, max_width)
       IN  /\ drawWidth' = d[1]
           /\ drawHeight' = d[2]
           /\ stages' = Append(stages, d)
    /\ rpc' = "stage2"
    /\ UNCHANGED <<max_width, max_height, img_size>>
    /\ UNCHANGED <<ocrVars, extractVars, pdfVars, globals>>

FitMaxHeight ==
    /\ rpc = "stage2"
    /\ LET d == Stage2(img_size, max_height, <<drawWidth, drawHeight>>)
       IN  /\ drawWidth' = d[1]
           /\ drawHeight' = d[2]
           /\ stages' = Append(stages, d)
    /\ rpc' = "stage3"
    /\ UNCHANGED <<max_width, max_height, img_size>>
    /\ UNCHANGED <<ocrVars, extractVars, pdfVars, globals>>

FitPage ==
    /\ rpc = "stage3"
    /\ LET d == Stage3(<<drawWidth, drawHeight>>)
       IN  /\ drawWidth' = d[1]
           /\ drawHeight' = d[2]
           /\ stages' = Append(stages, d)
    /\ rpc' = "done"
    /\ UNCHANGED <<max_width, max_height, img_size>>
    /\ UNCHANGED <<ocrVars, extractVars, pdfVars, globals>>


-----------------------------------------------------------------------------
(*                          apply_ocr_to_pdf                                 *)

Langs == {"ces", "ces+chi_sim"}

\* What one call of ocrmypdf.ocr can do: succeed, fail because the document
\* already has text (the message holds "page already has text"), or fail
\* otherwise.
EngineOutcomes == {"ok", "has_text", "other"}

OcrIdle ==
    /\ opc = "idle"
    /\ exc = None
    /\ invocations = <<>>
    /\ replaced = 0

OcrStart ==
    /\ OcrIdle
    /\ available \in BOOLEAN
    /\ force \in BOOLEAN
    /\ lang \in Langs
    /\ pdf = "assembled"
    \* a temporary file of an earlier, interrupted run may be lying around
    /\ temp \in {"absent", "stale"}

\* line 439
ShouldRetryMutant(e, f) ==
    e = "has_text"
ShouldRetry(e, f) ==
    e = "has_text" /\ ~f

\* lines 409-414
OcrImport ==
    /\ opc = "idle"
    /\ opc' = IF available THEN "ocr1" ELSE "returned"
    /\ UNCHANGED <<available, force, lang, pdf, temp, exc, invocations, replaced>>
    /\ UNCHANGED <<placeVars, extractVars, pdfVars, globals>>

\* One call of ocrmypdf.ocr(pdf_path, temp_output, force_ocr = f): on success
\* the complete result is at temp_output; on failure the engine may or may not
\* have left something there.
\* The first call's exception is e, the retry's is e2: e2 is only printed.
Invoke(f, okpc, failpc, first) ==
    /\ \E out \in EngineOutcomes :
          /\ invocations' = Append(invocations,
                 [force_ocr |-> f, language |-> lang, outcome |-> out])
          /\ IF out = "ok"
             THEN /\ temp' = "complete"
                  /\ exc' = exc
                  /\ opc' = okpc
             ELSE /\ temp' \in {temp, "partial"}
                  /\ exc' = IF first THEN out ELSE exc
                  /\ opc' = failpc
    /\ UNCHANGED <<available, force, lang, pdf, replaced>>
    /\ UNCHANGED <<placeVars, extractVars, pdfVars, globals>>

\* os.replace(temp_output, pdf_path): atomic; it can fail (an OSError, whose
\* text names the errno and the two paths, which are taken not to hold the
\* engine's phrase) and then changes nothing.
Replace(okpc, failpc, first) ==
    /\ \/ /\ pdf' = "ocr"
          /\ temp' = "absent"
          /\ replaced' = replaced + 1
          /\ exc' = exc
          /\ opc' = okpc
       \/ /\ exc' = IF first THEN "other" ELSE exc
          /\ opc' = failpc
          /\ UNCHANGED <<pdf, temp, replaced>>
    /\ UNCHANGED <<available, force, lang, invocations>>
    /\ UNCHANGED <<placeVars, extractVars, pdfVars, globals>>

\* lines 426-434
OcrFirst ==
    /\ opc = "ocr1"
    /\ Invoke(force, "replace1", "except1", TRUE)

\* lines 435-436
OcrReplaceFirst ==
    /\ opc = "replace1"
    /\ Replace("returned", "except1", TRUE)

\* lines 437-440 and 456-457
OcrHandle ==
    /\ opc = "except1"
    /\ opc' = IF ShouldRetry(exc, force) THEN "ocr2" ELSE "cleanup"
    /\ UNCHANGED <<available, force, lang, pdf, temp, exc, invocations, replaced>>
    /\ UNCHANGED <<placeVars, extractVars, pdfVars, globals>>

\* lines 441-450 and 454-455
OcrRetry ==
    /\ opc = "ocr2"
    /\ Invoke(TRUE, "replace2", "cleanup", FALSE)

\* lines 451-455
OcrReplaceRetry ==
    /\ opc = "replace2"
    /\ Replace("returned", "cleanup", FALSE)

\* lines 458-459
OcrCleanupMutant ==
    /\ opc = "cleanup"
    /\ opc' = "returned"
    /\ UNCHANGED <<available, force, lang, pdf, temp, exc, invocations, replaced>>
    /\ UNCHANGED <<placeVars, extractVars, pdfVars, globals>>
OcrCleanup ==
    /\ opc = "cleanup"
    /\ temp' = "absent"
    /\ opc' = "returned"
    /\ UNCHANGED <<available, force, lang, pdf, exc, invocations, replaced>>
    /\ UNCHANGED <<placeVars, extractVars, pdfVars, globals>>

-----------------------------------------------------------------------------
(*                             parse_html_content                            *)

\* A field value is markup.  BeautifulSoup's tree is modelled as the sequence
\* of its leaves in document order: a text node (one word, or blanks only),
\* an <img> with its src, or a <br>.  A text is a sequence of characters.
Txt(c)   == [node |-> "text", s |-> c]
Img(src) == [node |-> "img", s |-> src]
Br       == [node |-> "br", s |-> ""]

RECURSIVE ImgFilenames(_)
\* lines 124-129: the src of every <img> that has one, in document order
ImgFilenames(html) ==
    IF html = <<>> THEN <<>>
    ELSE LET rest == ImgFilenames(Tail(html))
         IN  IF Head(html).node = "img" /\ Head(html).s # ""
             THEN <<Head(html).s>> \o rest
             ELSE rest

RECURSIVE TextLines(_)
\* lines 130-137: images are removed, a <br> becomes a line end, get_text puts
\* every text node on a line of its own, blank lines are dropped
TextLines(html) ==
    IF html = <<>> THEN <<>>
    ELSE LET rest == TextLines(Tail(html))
         IN  IF Head(html).node = "text" /\ Head(html).s \notin {"", " "}
             THEN <<Head(html).s>> \o rest
             ELSE rest

RECURSIVE JoinLines(_)
\* line 137: '\n'.join
JoinLines(lines) ==
    IF lines = <<>> THEN <<>>
    ELSE IF Len(lines) = 1 THEN <<Head(lines)>>
    ELSE <<Head(lines), "\n">> \o JoinLines(Tail(lines))

\* lines 114-139
parse_html_content(html) ==
    IF html = <<>>
    THEN [text |-> <<>>, imgs |-> <<>>]
    ELSE [text |-> JoinLines(TextLines(html)), imgs |-> ImgFilenames(html)]

-----------------------------------------------------------------------------
(*                        extract_anki_data_connect                          *)

\* lines 59-60 (the two names with diacritics are written without them)
QUESTION_FIELD_NAMES == <<"front", "question", "otazka", "q", "term", "text">>
ANSWER_FIELD_NAMES == <<"back", "answer", "odpoved", "a", "definition", "back extra">>

\* str.lower on the field names that occur
Lower(name) ==
    CASE name = "Front" -> "front"
      [] name = "Back" -> "back"
      [] name = "Question" -> "question"
      [] name = "ANSWER" -> "answer"
      [] name = "Extra" -> "extra"
      [] name = "Foo" -> "foo"
      [] OTHER -> name

\* The markup values that occur in the cards.
MarkupA == <<Txt("a"), Br, Txt("b"), Img("p.png")>>
MarkupB == <<Img("q.png"), Txt(" "), Txt("c"), Img("")>>
MarkupC == <<>>

\* The 'fields' of a card: field name -> value; the empty function is {}.
NoFields == [n \in {} |-> <<>>]
FieldSets ==
    { NoFields,
      [n \in {"Front", "Back"} |-> IF n = "Front" THEN MarkupA ELSE MarkupB],
      [n \in {"Question", "Front", "ANSWER"} |->
            IF n = "Front" THEN MarkupB ELSE IF n = "Question" THEN MarkupA ELSE MarkupC],
      [n \in {"Front", "Extra"} |-> MarkupA],
      [n \in {"Foo"} |-> MarkupB] }

NoteIds == {1, 2}

\* What cardsInfo tells about one card.  note = 0 stands for a missing or
\* zero note id; modelName is missing from some answers.
CardInfos ==
    [note : NoteIds, fields : FieldSets, modelName : {"Basic"}]
      \cup [note : {0}, fields : {f \in FieldSets : DOMAIN f = {"Front", "Back"}},
            modelName : {None}]

MaxCards == 3
\* batch_size is 100 in the source (line 201); the model takes small batches
\* so that several batches occur within MaxCards cards.
batch_size == 2

RECURSIVE SeqsUpTo(_, _)
SeqsUpTo(S, n) ==
    IF n = 0 THEN {<<>>}
    ELSE LET shorter == SeqsUpTo(S, n - 1)
         IN  shorter \cup {Append(q, x) : q \in {t \in shorter : Len(t) = n - 1}, x \in S}

Min(a, b) == IF a < b THEN a ELSE b

\* lines 219-227: the first candidate name, in priority order, that is a
\* lower-cased field name; the field's own spelling is returned
RECURSIVE FirstMatch(_, _)
FirstMatch(candidates, fields) ==
    IF candidates = <<>> THEN None
    ELSE LET hit == {n \in DOMAIN fields : Lower(n) = Head(candidates)}
         IN  IF hit # {} THEN CHOOSE n \in hit : TRUE
             ELSE FirstMatch(Tail(candidates), fields)

q_field_name(fields) == FirstMatch(QUESTION_FIELD_NAMES, fields)
a_field_name(fields) == FirstMatch(ANSWER_FIELD_NAMES, fields)

\* line 228
RolesResolve(fields) ==
    q_field_name(fields) # None /\ a_field_name(fields) # None

\* lines 229-240
NoteRecord(card_info) ==
    LET q == parse_html_content(card_info.fields[q_field_name(card_info.fields)])
        a == parse_html_content(card_info.fields[a_field_name(card_info.fields)])
    IN  [note_id |-> card_info.note,
         model_name |-> IF card_info.modelName = None THEN "Neznamy model"
                        ELSE card_info.modelName,
         q_text |-> q.text, q_images |-> q.imgs,
         a_text |-> a.text, a_images |-> a.imgs]

\* line 216: note_id not in extracted_notes
NotExtractedMutant(note_id, notes) ==
    TRUE
NotExtracted(note_id, notes) ==
    \A k \in 1 .. Len(notes) : notes[k].note_id # note_id

\* line 213
Skipped(card_info) ==
    card_info.note = 0 \/ DOMAIN card_info.fields = {}

ExtractStart ==
    /\ xpc = "start"
    /\ collection \in SeqsUpTo(CardInfos, MaxCards)
    /\ card_ids = Unset
    /\ i = 0
    /\ cards_info = None
    /\ j = 0
    /\ extracted_notes = <<>>
    /\ xresult = Unset
    /\ batches = <<>>
    /\ console = <<>>

\* lines 193-201: findCards fails (None is returned), finds nothing ([] is
\* returned) or gives the ids of the cards
FindCards ==
    /\ xpc = "start"
    /\ \E ok \in BOOLEAN :
          /\ card_ids' = IF ok THEN List([k \in 1 .. Len(collection) |-> k])
                          ELSE NoneValue
          /\ IF ~ok
             THEN xresult' = NoneValue /\ xpc' = "done"
             ELSE IF collection = <<>>
             THEN xresult' = List(<<>>) /\ xpc' = "done"
             ELSE xresult' = xresult /\ xpc' = "batch"
    /\ UNCHANGED <<collection, i, cards_info, j, extracted_notes, batches, console>>
    /\ UNCHANGED <<ocrVars, placeVars, pdfVars, globals>>

\* lines 203-209: the next batch is requested; a batch without an answer is
\* skipped
FetchBatchMutant ==
    /\ xpc = "batch"
    /\ i < Len(card_ids.list)
    /\ \E ok \in BOOLEAN :
          LET batch_ids == SubSeq(card_ids.list, i + 1,
                                   Min(i + batch_size, Len(card_ids.list)))
          IN  /\ batches' = Append(batches, ok)
              /\ IF ok
                 THEN /\ cards_info' = [k \in 1 .. Len(batch_ids) |-> collection[batch_ids[k]]]
                      /\ j' = 1
                      /\ xpc' = "item"
                      /\ UNCHANGED <<i, console, xresult>>
                 ELSE /\ cards_info' = None
                      /\ console' = Append(console, [warn |-> "batch", id |-> batch_ids[1]])
                      /\ xresult' = NoneValue
                      /\ xpc' = "done"
                      /\ UNCHANGED <<i, j>>
    /\ UNCHANGED <<collection, card_ids, extracted_notes>>
    /\ UNCHANGED <<ocrVars, placeVars, pdfVars, globals>>
FetchBatch ==
    /\ xpc = "batch"
    /\ i < Len(card_ids.list)
    /\ \E ok \in BOOLEAN :
          LET batch_ids == SubSeq(card_ids.list, i + 1,
                                   Min(i + batch_size, Len(card_ids.list)))
          IN  /\ batches' = Append(batches, ok)
              /\ IF ok
                 THEN /\ cards_info' = [k \in 1 .. Len(batch_ids) |-> collection[batch_ids[k]]]
                      /\ j' = 1
                      /\ xpc' = "item"
                      /\ UNCHANGED <<i, console>>
                 ELSE /\ cards_info' = None
                      /\ console' = Append(console, [warn |-> "batch", id |-> batch_ids[1]])
                      /\ i' = i + batch_size
                      /\ UNCHANGED <<j, xpc>>
    /\ UNCHANGED <<collection, card_ids, extracted_notes, xresult>>
    /\ UNCHANGED <<ocrVars, placeVars, pdfVars, globals>>

\* lines 210-243: one item of the batch
ProcessItem ==
    /\ xpc = "item"
    /\ LET card_info == cards_info[j]
           cardId == card_ids.list[i + j]
       IN  IF Skipped(card_info)
           THEN /\ console' = Append(console, [warn |-> "item", id |-> cardId])
                /\ UNCHANGED extracted_notes
           ELSE IF ~NotExtracted(card_info.note, extracted_notes)
           THEN UNCHANGED <<console, extracted_notes>>
           ELSE IF RolesResolve(card_info.fields)
           THEN /\ extracted_notes' = Append(extracted_notes, NoteRecord(card_info))
                /\ UNCHANGED console
           ELSE /\ console' = Append(console, [warn |-> "roles", id |-> card_info.note])
                /\ UNCHANGED extracted_notes
    /\ IF j < Len(cards_info)
       THEN j' = j + 1 /\ UNCHANGED <<i, xpc>>
       ELSE j' = j /\ i' = i + batch_size /\ xpc' = "batch"
    /\ UNCHANGED <<collection, card_ids, cards_info, xresult, batches>>
    /\ UNCHANGED <<ocrVars, placeVars, pdfVars, globals>>

\* lines 244-245
ExtractReturnMutant ==
    /\ xpc = "batch"
    /\ i >= Len(card_ids.list)
    /\ xresult' = List([k \in 1 .. Len(extracted_notes) |->
                            extracted_notes[Len(extracted_notes) + 1 - k]])
    /\ xpc' = "done"
    /\ UNCHANGED <<collection, card_ids, i, cards_info, j, extracted_notes, batches, console>>
    /\ UNCHANGED <<ocrVars, placeVars, pdfVars, globals>>
ExtractReturn ==
    /\ xpc = "batch"
    /\ i >= Len(card_ids.list)
    /\ xresult' = List(extracted_notes)
    /\ xpc' = "done"
    /\ UNCHANGED <<collection, card_ids, i, cards_info, j, extracted_notes, batches, console>>
    /\ UNCHANGED <<ocrVars, placeVars, pdfVars, globals>>

-----------------------------------------------------------------------------
(*                    get_media_data and the error log                       *)

Files == {"p.png", "q.png"}

\* What retrieveMediaFile can give for one request: nothing (anki_request
\* returns None, or the file is unknown), a payload that base64 cannot
\* decode, the payload of an image, or the payload of bytes that are no image.
MediaOutcomes == {"none", "bad_b64", "image", "garbage"}

\* lines 48-52
log_error(log, note_id, kind, file) ==
    Append(log, [note_id |-> note_id, kind |-> kind, file |-> file])

\* lines 34-46 with the default quality: an image is stored again as JPEG;
\* bytes Pillow cannot open are returned as they are
compress_image(data) ==
    IF data = "image" THEN "jpeg" ELSE data

\* line 167
InCache(cache, filename) ==
    cache[filename] # "absent"

\* line 175
CacheStoreMutant(cache, filename, data) ==
    cache
CacheStore(cache, filename, data) ==
    [cache EXCEPT ![filename] = data]

\* lines 165-184: the value returned ("None" for None), the cache and the
\* error log after the call, for a cache hit or for the remote answer out
get_media_data(cache, log, filename, note_id, out) ==
    IF InCache(cache, filename)
    THEN [data |-> cache[filename], cache |-> cache, log |-> log, result |-> "hit"]
    ELSE IF out = "none"
    THEN [data |-> None, cache |-> cache, log |-> log, result |-> "none"]
    ELSE IF out = "bad_b64"
    THEN [data |-> None, cache |-> cache,
          log |-> log_error(log, note_id, "base64", filename), result |-> "bad_b64"]
    ELSE LET data == compress_image(out)
         IN  [data |-> data, cache |-> CacheStore(cache, filename, data),
              log |-> log, result |-> "data"]

-----------------------------------------------------------------------------
(*                           create_pdf_connect                              *)

\* The flowables of the story.  src is the text a paragraph was made from.
Block(kind, text, style, src) ==
    [kind |-> kind, text |-> text, style |-> style, src |-> src]
Heading(label)        == Block("Paragraph", label, "CardTitle", <<>>)
ErrorParagraph(label) == Block("Paragraph", label, "CardTextError", <<>>)
ImageBlock(filename)  == Block("Image", filename, "", <<>>)
SpacerBlock(height)   == Block("Spacer", height, "", <<>>)
PageBreakBlock        == Block("PageBreak", "", "", <<>>)

RECURSIVE StrReplace(_, _, _)
\* str.replace for a pattern of one character
StrReplace(str, old, new) ==
    IF str = <<>> THEN <<>>
    ELSE (IF Head(str) = old THEN new ELSE <<Head(str)>>)
            \o StrReplace(Tail(str), old, new)

BrTag == <<"<", "b", "r", "/", ">">>
Amp   == <<"&", "a", "m", "p", ";">>
Lt    == <<"&", "l", "t", ";">>
Gt    == <<"&", "g", "t", ";">>

\* lines 305 and 341
text_with_br(text) ==
    StrReplace(text, "\n", BrTag)

\* lines 308 and 344
safe_text(str) ==
    StrReplace(StrReplace(StrReplace(str, "&", Amp), "<", Lt), ">", Gt)

StartsAt(str, k, part) ==
    /\ k + Len(part) - 1 <= Len(str)
    /\ SubSeq(str, k, k + Len(part) - 1) = part

\* Paragraph(...) raises ValueError for markup its parser rejects: a "<" or
\* ">" outside a <br/> tag, or a "&" that starts no entity.
ParagraphAccepts(markup) ==
    \A k \in 1 .. Len(markup) :
        /\ markup[k] = "<" => StartsAt(markup, k, BrTag)
        /\ markup[k] = ">" => (k >= 5 /\ StartsAt(markup, k - 4, BrTag))
        /\ markup[k] = "&" => \E e \in {Amp, Lt, Gt} : StartsAt(markup, k, e)

\* lines 304-315 and 340-351: the paragraph for the text of one role
TextParagraph(text, role) ==
    IF text # <<>>
    THEN LET markup == safe_text(text_with_br(text))
         IN  IF ParagraphAccepts(markup)
             THEN Block("Paragraph", markup, "CardText", text)
             ELSE ErrorParagraph(<<"format", role>>)
    ELSE ErrorParagraph(<<"empty", role>>)

\* The natural size ImageReader reports for the images of the model.
ImageSize == <<3, 1400>>

\* lines 74-99 and 322-326: res_img.width for data that get_media_data gave;
\* only a JPEG can be read, anything else leaves the width 0
ResizableWidth(data) ==
    IF data = "jpeg"
    THEN Stage3(Stage2(ImageSize, None,
                       Stage1(ImageSize, <<AVAIL_W90_NUM, A4_H80_DEN>>)))[1]
    ELSE Rat(0)

\* lines 332-333 and 368-369: what the assembler itself logs when
\* get_media_data gave nothing
LogLoadFailureMutant(log, note_id, filename) ==
    log
LogLoadFailure(log, note_id, filename) ==
    log_error(log, note_id, "load", filename)

\* lines 318-334 and 354-370: one pass of an image loop
ImageStep(filename) ==
    LET note_id == cards_data[ci].note_id
    IN  \E out \in MediaOutcomes :
          LET got == get_media_data(IMAGE_CACHE, error_log, filename, note_id, out)
          IN  /\ calls' = Append(calls, [file |-> filename, note_id |-> note_id,
                                         run |-> run_no, result |-> got.result])
              /\ IMAGE_CACHE' = got.cache
              /\ IF got.data # None
                 THEN IF RPos(ResizableWidth(got.data))
                      THEN /\ story' = story \o <<ImageBlock(filename), SpacerBlock("0.2cm")>>
                           /\ error_log' = got.log
                      ELSE /\ story' = Append(story, ErrorParagraph(<<"undisplayable", filename>>))
                           /\ error_log' = log_error(got.log, note_id, "size", filename)
                 ELSE /\ error_log' = LogLoadFailure(got.log, note_id, filename)
                      /\ story' = Append(story, ErrorParagraph(<<"unloadable", filename>>))

\* The records the model passes to create_pdf_connect.
RecordPool ==
    { [q_text |-> <<"a", "\n", "b">>, q_images |-> <<"p.png">>,
       a_text |-> <<"<", "&", ">">>, a_images |-> <<"p.png">>],
      [q_text |-> <<>>, q_images |-> <<>>,
       a_text |-> <<>>, a_images |-> <<"q.png", "p.png">>],
      [q_text |-> <<"c">>, q_images |-> <<>>,
       a_text |-> <<"d">>, a_images |-> <<>>] }

MaxRecords == 2

\* The records carry the note ids 1, 2, ... in list order.
WithNoteIds(records) ==
    [k \in 1 .. Len(records) |->
        [note_id |-> k, q_text |-> records[k].q_text, q_images |-> records[k].q_images,
         a_text |-> records[k].a_text, a_images |-> records[k].a_images]]

NoFile == [absent |-> TRUE]

PdfIdle ==
    /\ ppc = "idle"
    /\ cards_data = <<>>
    /\ ci = 0
    /\ ri = 0
    /\ story = <<>>
    /\ report = NoFile
    /\ written = 0
    /\ log_at_call = 0
    /\ rendered = 0
    /\ run_no = 0
    /\ calls = <<>>

EmptyCache == [f \in Files |-> "absent"]

\* lines 263-299: a call; an empty list returns at once
PdfCall ==
    /\ ppc = "idle"
    /\ \E records \in SeqsUpTo(RecordPool, MaxRecords - rendered) :
          IF records = <<>>
          THEN UNCHANGED pdfVars
          ELSE /\ cards_data' = WithNoteIds(records)
               /\ rendered' = rendered + Len(records)
               /\ run_no' = run_no + 1
               /\ ci' = 1
               /\ ri' = 0
               /\ story' = <<>>
               /\ log_at_call' = Len(error_log)
               /\ written' = 0
               /\ ppc' = "q_text"
               /\ UNCHANGED <<report, calls>>
    /\ UNCHANGED <<ocrVars, placeVars, extractVars, globals>>

\* lines 303-315
QuestionText ==
    /\ ppc = "q_text"
    /\ story' = story \o <<Heading("Otazka:"), TextParagraph(cards_data[ci].q_text, "q")>>
    /\ ri' = 1
    /\ ppc' = "q_images"
    /\ UNCHANGED <<cards_data, ci, report, written, log_at_call, rendered, run_no, calls>>
    /\ UNCHANGED <<ocrVars, placeVars, extractVars, globals>>

\* lines 318-334
QuestionImage ==
    /\ ppc = "q_images"
    /\ ri <= Len(cards_data[ci].q_images)
    /\ ImageStep(cards_data[ci].q_images[ri])
    /\ ri' = ri + 1
    /\ UNCHANGED <<ppc, cards_data, ci, report, written, log_at_call, rendered, run_no>>
    /\ UNCHANGED <<ocrVars, placeVars, extractVars>>

\* lines 336-351
AnswerText ==
    /\ ppc = "q_images"
    /\ ri > Len(cards_data[ci].q_images)
    /\ story' = story \o <<SpacerBlock("0.6cm"), Heading("Odpoved:"),
                           TextParagraph(cards_data[ci].a_text, "a")>>
    /\ ri' = 1
    /\ ppc' = "a_images"
    /\ UNCHANGED <<cards_data, ci, report, written, log_at_call, rendered, run_no, calls>>
    /\ UNCHANGED <<ocrVars, placeVars, extractVars, globals>>

\* lines 354-370
AnswerImage ==
    /\ ppc = "a_images"
    /\ ri <= Len(cards_data[ci].a_images)
    /\ ImageStep(cards_data[ci].a_images[ri])
    /\ ri' = ri + 1
    /\ UNCHANGED <<ppc, cards_data, ci, report, written, log_at_call, rendered, run_no>>
    /\ UNCHANGED <<ocrVars, placeVars, extractVars>>

\* lines 373-374 and the end of the card loop
NextCardMutant ==
    /\ ppc = "a_images"
    /\ ri > Len(cards_data[ci].a_images)
    /\ story' = Append(story, PageBreakBlock)
    /\ IF ci < Len(cards_data)
       THEN /\ ci' = ci + 1
            /\ ppc' = "q_text"
       ELSE /\ ppc' = "build"
            /\ UNCHANGED ci
    /\ ri' = 0
    /\ UNCHANGED <<cards_data, report, written, log_at_call, rendered, run_no, calls>>
    /\ UNCHANGED <<ocrVars, placeVars, extractVars, globals>>
NextCard ==
    /\ ppc = "a_images"
    /\ ri > Len(cards_data[ci].a_images)
    /\ IF ci < Len(cards_data)
       THEN /\ story' = Append(story, PageBreakBlock)
            /\ ci' = ci + 1
            /\ ppc' = "q_text"
       ELSE /\ ppc' = "build"
            /\ UNCHANGED <<story, ci>>
    /\ ri' = 0
    /\ UNCHANGED <<cards_data, report, written, log_at_call, rendered, run_no, calls>>
    /\ UNCHANGED <<ocrVars, placeVars, extractVars, globals>>

\* lines 377-378, and 391-394 when doc.build raises (a flowable that fits no
\* page, an unwritable path): the handler prints and the call returns
Build ==
    /\ ppc = "build"
    /\ \E ok \in BOOLEAN :
          IF ok
          THEN /\ pdf' = "assembled"
               /\ ppc' = "report"
          ELSE /\ pdf' = "unfinished"
               /\ ppc' = "idle"
    /\ UNCHANGED <<cards_data, ci, ri, story, report, written, log_at_call, rendered, run_no, calls>>
    /\ UNCHANGED <<opc, available, force, lang, temp, exc, invocations, replaced>>
    /\ UNCHANGED <<placeVars, extractVars, globals>>

\* lines 380-386
WriteReport ==
    /\ ppc = "report"
    /\ report' = IF error_log # <<>> THEN List(error_log) ELSE report
    /\ written' = IF error_log # <<>> THEN written + 1 ELSE written
    /\ ppc' = "ocr_call"
    /\ UNCHANGED <<cards_data, ci, ri, story, log_at_call, rendered, run_no, calls>>
    /\ UNCHANGED <<ocrVars, placeVars, extractVars, globals>>

\* line 389: apply_ocr_to_pdf(output_pdf_path, lang = ocr_lang, force =
\* force_ocr), with the defaults of the signature
CallOcr ==
    /\ ppc = "ocr_call"
    /\ opc' = "idle"
    /\ force' = FALSE
    /\ lang' = "ces"
    /\ exc' = None
    /\ invocations' = <<>>
    /\ replaced' = 0
    /\ ppc' = "ocr"
    /\ UNCHANGED <<available, pdf, temp>>
    /\ UNCHANGED <<cards_data, ci, ri, story, report, written, log_at_call, rendered, run_no, calls>>
    /\ UNCHANGED <<placeVars, extractVars, globals>>

\* apply_ocr_to_pdf has returned, and so does create_pdf_connect; the locals
\* of the finished recognition pass are gone
PdfReturn ==
    /\ ppc = "ocr"
    /\ opc = "returned"
    /\ ppc' = "idle"
    /\ exc' = None
    /\ invocations' = <<>>
    /\ replaced' = 0
    /\ UNCHANGED <<opc, available, force, lang, pdf, temp>>
    /\ UNCHANGED <<cards_data, ci, ri, story, report, written, log_at_call, rendered, run_no, calls>>
    /\ UNCHANGED <<placeVars, extractVars, globals>>

-----------------------------------------------------------------------------
(*                            Specifications                                 *)

\* No image is being sized.
PlaceQuiet ==
    /\ rpc = "done"
    /\ max_width = Rat(1)
    /\ max_height = None
    /\ img_size = None
    /\ drawWidth = Rat(0)
    /\ drawHeight = Rat(0)
    /\ stages = <<>>

\* No recognition pass is running; the engine is not installed.
OcrQuiet ==
    /\ opc = "returned"
    /\ exc = None
    /\ invocations = <<>>
    /\ replaced = 0
    /\ available = FALSE
    /\ force = FALSE
    /\ lang = "ces"
    /\ pdf = "assembled"
    /\ temp = "absent"

\* No extraction is running: the deck was found empty.
ExtractQuiet ==
    /\ xpc = "done"
    /\ collection = <<>>
    /\ card_ids = List(<<>>)
    /\ i = 0
    /\ cards_info = None
    /\ j = 0
    /\ extracted_notes = <<>>
    /\ xresult = List(<<>>)
    /\ batches = <<>>
    /\ console = <<>>

\* lines 27 and 29
GlobalsStart ==
    /\ error_log = <<>>
    /\ IMAGE_CACHE = EmptyCache

\* ResizableImage.__init__ on every input of the bounded sets.
InitPlace ==
    PlaceStart /\ OcrQuiet /\ ExtractQuiet /\ PdfIdle /\ GlobalsStart

NextPlace ==
    \/ ReadSize
    \/ FitWidth
    \/ FitMaxHeight
    \/ FitPage

SpecPlace == InitPlace /\ [][NextPlace]_vars

\* One call of apply_ocr_to_pdf in every environment.
InitOcr ==
    OcrStart /\ PlaceQuiet /\ ExtractQuiet /\ PdfIdle /\ GlobalsStart

NextOcr ==
    \/ OcrImport
    \/ OcrFirst
    \/ OcrReplaceFirst
    \/ OcrHandle
    \/ OcrRetry
    \/ OcrReplaceRetry
    \/ OcrCleanup

SpecOcr == InitOcr /\ [][NextOcr]_vars

\* One call of extract_anki_data_connect on every deck of the bounded sets.
InitExtract ==
    ExtractStart /\ PlaceQuiet /\ OcrQuiet /\ PdfIdle /\ GlobalsStart

NextExtract ==
    \/ FindCards
    \/ FetchBatch
    \/ ProcessItem
    \/ ExtractReturn

SpecExtract == InitExtract /\ [][NextExtract]_vars

\* Calls of create_pdf_connect, one after the other in one process, with the
\* recognition pass each of them ends with.
InitPdf ==
    /\ PdfIdle /\ GlobalsStart /\ PlaceQuiet /\ ExtractQuiet
    /\ opc = "returned"
    /\ exc = None
    /\ invocations = <<>>
    /\ replaced = 0
    /\ available \in BOOLEAN
    /\ force = FALSE
    /\ lang = "ces"
    /\ pdf = "missing"
    /\ temp = "absent"

NextPdf ==
    \/ PdfCall
    \/ QuestionText
    \/ QuestionImage
    \/ AnswerText
    \/ AnswerImage
    \/ NextCard
    \/ Build
    \/ WriteReport
    \/ CallOcr
    \/ OcrImport
    \/ OcrFirst
    \/ OcrReplaceFirst
    \/ OcrHandle
    \/ OcrRetry
    \/ OcrReplaceRetry
    \/ OcrCleanup
    \/ PdfReturn

SpecPdf == InitPdf /\ [][NextPdf]_vars

-----------------------------------------------------------------------------
(*                               Claims                                      *)

\* The items of the deck that carry note identity k, by position.
ItemsOf(k) ==
    {idx \in 1 .. Len(collection) : collection[idx].note = k}

\* The items whose cardsInfo batch was answered and which line 213 lets pass.
Reached(idx) ==
    /\ batches[((idx - 1) \div batch_size) + 1]
    /\ ~Skipped(collection[idx])

\* The reached items of note k whose roles resolve.
Resolvable(k) ==
    {idx \in ItemsOf(k) : Reached(idx) /\ RolesResolve(collection[idx].fields)}

RecordsOf(k) ==
    {r \in 1 .. Len(xresult.list) : xresult.list[r].note_id = k}

EntriesOf(k) ==
    {e \in 1 .. Len(error_log) : error_log[e].note_id = k}

Returned ==
    xpc = "done" /\ IsList(xresult)

SetMin(S) ==
    CHOOSE x \in S : \A y \in S : x <= y

\* The items of note k that cardsInfo delivered with a note id and fields.
ReachedOf(k) ==
    {idx \in ItemsOf(k) : Reached(idx)}

\* C1 (as claimed): whenever delivered items share a note identity, the
\* returned list holds exactly one NoteRecord for it, built from the first of
\* those items in enumeration order.
C1_FirstItemRecord ==
    Returned =>
        \A k \in NoteIds :
            ReachedOf(k) # {} =>
                LET first == collection[SetMin(ReachedOf(k))]
                IN  /\ Cardinality(RecordsOf(k)) = 1
                    /\ RolesResolve(first.fields)
                    /\ \A r \in RecordsOf(k) : xresult.list[r] = NoteRecord(first)

\* C1 (amended): the returned list holds at most one NoteRecord per note
\* identity; it holds one exactly when some item of that identity came in an
\* answered batch with a note id and fields and has both roles resolved, and
\* the record is built from the first such item; no later item replaces it.
C1_FirstResolvableRecord ==
    Returned =>
        \A k \in NoteIds \cup {0} :
            IF Resolvable(k) = {}
            THEN RecordsOf(k) = {}
            ELSE /\ Cardinality(RecordsOf(k)) = 1
                 /\ \A r \in RecordsOf(k) :
                       xresult.list[r] = NoteRecord(collection[SetMin(Resolvable(k))])

\* C1 witness: a note with several items, the first of which gave no record
\* while a later one did, and another item of the note came after that one.
C1_Witness ==
    /\ Returned
    /\ \E k \in NoteIds :
          /\ Resolvable(k) # {}
          /\ SetMin(ReachedOf(k)) < SetMin(Resolvable(k))
          /\ \E idx \in Resolvable(k) : idx > SetMin(Resolvable(k))
          /\ \E idx \in Resolvable(k) :
                NoteRecord(collection[idx]) # NoteRecord(collection[SetMin(Resolvable(k))])

\* C5 (as claimed): a note whose fields give no question or no answer role
\* yields no NoteRecord and exactly one entry in error_log; the other notes
\* have no entry.
C5_UnresolvedLogged ==
    Returned =>
        \A k \in NoteIds :
            IF ReachedOf(k) # {} /\ Resolvable(k) = {}
            THEN RecordsOf(k) = {} /\ Cardinality(EntriesOf(k)) = 1
            ELSE EntriesOf(k) = {}

\* C6: the function returns None exactly when findCards failed; an empty deck
\* gives the empty list; an unanswered batch, an item without note id or
\* without fields is skipped, and every note that has a resolvable item in an
\* answered batch still has its NoteRecord in the result.
C6_FailureClasses ==
    xpc = "done" =>
        /\ xresult = NoneValue <=> card_ids = NoneValue
        /\ xresult # NoneValue => IsList(xresult)
        /\ (IsList(card_ids) /\ collection = <<>>) => xresult = List(<<>>)
        /\ IsList(card_ids) =>
              /\ Len(batches) = (Len(collection) + batch_size - 1) \div batch_size
              /\ \A idx \in 1 .. Len(collection) :
                    (Reached(idx) /\ RolesResolve(collection[idx].fields))
                        => RecordsOf(collection[idx].note) # {}
              /\ \A r \in 1 .. Len(xresult.list) :
                    Resolvable(xresult.list[r].note_id) # {}

\* C6 witness: a batch was not answered, an item of an answered batch was
\* skipped, and the result still holds a record.
C6_Witness ==
    /\ Returned
    /\ \E b \in 1 .. Len(batches) : ~batches[b]
    /\ \E idx \in 1 .. Len(collection) :
          batches[((idx - 1) \div batch_size) + 1] /\ Skipped(collection[idx])
    /\ xresult.list # <<>>

\* The calls of get_media_data for file f in run r, by position in calls.
CallsOf(f, r) ==
    {n \in 1 .. Len(calls) : calls[n].file = f /\ calls[n].run = r}

\* A call that did not ask the remote service is a cache hit.
Remote(n) ==
    calls[n].result # "hit"

\* C2 (as claimed): of any two calls of get_media_data for the same file in
\* one run, whatever the first gave, only the first asks the remote service.
C2_OneFetchPerFile ==
    \A f \in Files, r \in 1 .. run_no :
        \A n, m \in CallsOf(f, r) :
            n < m => ~Remote(m)

\* C2 (amended): a call of get_media_data asks the remote service exactly
\* when no earlier call for the same file returned data: after a call that
\* returned data every later call for the file is served from the cache with
\* no remote request, and after a failed call the next one asks again.
C2_FetchUntilCached ==
    \A n \in 1 .. Len(calls) :
        Remote(n) <=>
            ~\E m \in 1 .. (n - 1) :
                /\ calls[m].file = calls[n].file
                /\ calls[m].result \in {"data", "hit"}

\* C2 witness: for one file a failed call was followed by a call that asked
\* the remote service again and got data, and that by a cache hit.
C2_Witness ==
    \E f \in Files, r \in 1 .. run_no :
        \E k, n, m \in CallsOf(f, r) :
            /\ k < n /\ n < m
            /\ calls[k].result = "none"
            /\ calls[n].result = "data"
            /\ calls[m].result = "hit"

RECURSIVE CountBreaks(_)
\* How many <br/> tags the markup holds.
CountBreaks(markup) ==
    IF markup = <<>> THEN 0
    ELSE IF StartsAt(markup, 1, BrTag)
    THEN 1 + CountBreaks(SubSeq(markup, 6, Len(markup)))
    ELSE CountBreaks(Tail(markup))

CountChar(str, c) ==
    Cardinality({k \in 1 .. Len(str) : str[k] = c})

\* C8 (as claimed): the Paragraph made from a non-empty text holds one
\* <br/> element for each newline of the text, and no character of the text
\* reaches the layout unescaped.
C8_BreaksAndEscapes ==
    \A b \in 1 .. Len(story) :
        (story[b].kind = "Paragraph" /\ story[b].style = "CardText") =>
            /\ CountBreaks(story[b].text) = CountChar(story[b].src, "\n")
            /\ ParagraphAccepts(story[b].text)

\* The step is one pass of an image loop in which get_media_data gave None.
FailedReference ==
    /\ Len(calls') = Len(calls) + 1
    /\ calls'[Len(calls')].result \in {"none", "bad_b64"}

NewEntries ==
    SubSeq(error_log', Len(error_log) + 1, Len(error_log'))

NewBlocks ==
    SubSeq(story', Len(story) + 1, Len(story'))

\* The pass emits the placeholder paragraph and nothing else, and the loop
\* goes on to the next reference of the same record.
PlaceholderAndOn ==
    /\ NewBlocks = <<ErrorParagraph(<<"unloadable", calls'[Len(calls')].file>>)>>
    /\ SubSeq(story', 1, Len(story)) = story
    /\ SubSeq(error_log', 1, Len(error_log)) = error_log
    /\ \A e \in 1 .. Len(NewEntries) :
          /\ NewEntries[e].note_id = cards_data[ci].note_id
          /\ NewEntries[e].file = calls'[Len(calls')].file
    /\ ppc' = ppc /\ ci' = ci /\ ri' = ri + 1

\* The references of the records of the current call.
RefCount ==
    LET refs(k) == Len(cards_data[k].q_images) + Len(cards_data[k].a_images)
        sum[k \in 0 .. Len(cards_data)] == IF k = 0 THEN 0 ELSE sum[k - 1] + refs(k)
    IN  sum[Len(cards_data)]

AllReferencesTried ==
    ppc = "build" =>
        Cardinality({n \in 1 .. Len(calls) : calls[n].run = run_no}) = RefCount

\* C9 (as claimed): for a media reference that does not resolve the
\* assembler appends exactly one entry for the owning note, emits the
\* placeholder paragraph and no image, and goes on.
C9_OneEntryPerFailure ==
    [][FailedReference => (Len(NewEntries) = 1 /\ PlaceholderAndOn)]_vars

\* C9 (amended): for a media reference that does not resolve, one entry is
\* appended for the owning note when the fetch gave nothing and two when the
\* payload could not be decoded (one by get_media_data, one by the
\* assembler); the placeholder paragraph and no image is emitted, and every
\* reference of every record of the call is tried.
C9_EntriesPerFailure ==
    /\ [][FailedReference =>
            /\ PlaceholderAndOn
            /\ Len(NewEntries) = IF calls'[Len(calls')].result = "bad_b64" THEN 2 ELSE 1
            /\ NewEntries[Len(NewEntries)].kind = "load"
            /\ Len(NewEntries) = 2 => NewEntries[1].kind = "base64"]_vars
    /\ []AllReferencesTried

\* C9 witness: a payload could not be decoded, both entries are in the log,
\* and the loop went on to a reference that resolved.
C9_Witness ==
    \E n \in 1 .. Len(calls) :
        /\ calls[n].result = "bad_b64"
        /\ n < Len(calls)
        /\ calls[n + 1].result = "data"
        /\ \E e \in 1 .. Len(error_log) - 1 :
              /\ error_log[e].kind = "base64"
              /\ error_log[e + 1].kind = "load"
              /\ error_log[e].note_id = calls[n].note_id
        /\ story[Len(story)].kind = "Spacer"

\* C10 (as claimed): when a call of create_pdf_connect has ended the error
\* log is empty again, so every call begins with an empty log and the report
\* it writes holds only entries of its own.
C10_LogClearedBetweenRuns ==
    /\ ppc = "idle" => error_log = <<>>
    /\ log_at_call = 0
    /\ (ppc = "ocr_call" /\ IsList(report)) =>
          report.list = SubSeq(error_log, log_at_call + 1, Len(error_log))

\* C3: apply_ocr_to_pdf invokes the engine a second time if and only if the
\* first invocation failed with the "already has text" failure and force was
\* false; the retry is made once, with force enabled and the same language;
\* the engine is invoked at most twice and the call always comes to return.
C3_RetryPolicy ==
    /\ Len(invocations) <= 2
    /\ Len(invocations) >= 1 => invocations[1].force_ocr = force
    /\ Len(invocations) = 2 =>
          /\ invocations[1].outcome = "has_text"
          /\ ~force
          /\ invocations[2].force_ocr = TRUE
          /\ invocations[2].language = invocations[1].language
    /\ ( /\ opc = "returned"
         /\ Len(invocations) >= 1
         /\ invocations[1].outcome = "has_text"
         /\ ~force ) => Len(invocations) = 2
    /\ opc # "returned" => ENABLED NextOcr

\* C3 witness: the retry was made and failed too, and the call returned.
C3_Witness ==
    /\ opc = "returned"
    /\ Len(invocations) = 2
    /\ invocations[2].outcome # "ok"

\* C4: the document at pdf_path is replaced only by renaming the complete
\* result of a successful engine invocation over it; when recognition ends in
\* failure the document is unmodified and no temporary file is left behind.
C4_ArtifactSafety ==
    /\ pdf \in {"assembled", "ocr"}
    /\ pdf = "ocr" <=> replaced = 1
    /\ replaced >= 1 => invocations[Len(invocations)].outcome = "ok"
    /\ opc \in {"replace1", "replace2"} => temp = "complete"
    /\ ( /\ opc = "returned"
         /\ Len(invocations) >= 1
         /\ replaced = 0 ) => (pdf = "assembled" /\ temp = "absent")

\* C4 witness: a failed retry left a partial temporary file, which is gone
\* when the call has returned; the document is the assembled one.
C4_Witness ==
    /\ opc = "returned"
    /\ Len(invocations) = 2
    /\ replaced = 0
    /\ temp = "absent"

\* C7: for positive natural sizes the computed size is at most max_width
\* wide and keeps the natural height/width ratio, and the max_height stage
\* and the page stage only shrink what the stage before them computed.
C7_Placement ==
    stages # <<>> =>
        /\ \A k \in 1 .. Len(stages) :
              /\ RPos(stages[k][1])
              /\ RLeq(stages[k][1], max_width)
              /\ RMul(stages[k][2], Rat(img_size[1]))
                    = RMul(stages[k][1], Rat(img_size[2]))
        /\ \A k \in 2 .. Len(stages) :
              /\ RLeq(stages[k][1], stages[k - 1][1])
              /\ RLeq(stages[k][2], stages[k - 1][2])
        /\ rpc = "done" =>
              /\ Len(stages) = 3
              /\ <<drawWidth, drawHeight>> = stages[3]

\* C7 witness: both the max_height stage and the page stage shrank the size.
C7_Witness ==
    /\ rpc = "done"
    /\ Len(stages) = 3
    /\ stages[2] # stages[1]
    /\ stages[3] # stages[2]

\* Entries were appended to error_log since the current call began.
AppendedInRun ==
    Len(error_log) > log_at_call

\* The card loop of the current call is over (line 376 was reached or passed).
RecordsDone ==
    ppc \in {"build", "report", "ocr_call", "ocr", "idle"}

\* C11 (as claimed): in every call of create_pdf_connect on a non-empty list
\* during which an entry was appended to the error log, the log is written to
\* the report file exactly once, after all records were processed, before the
\* recognition pass starts and before the call returns, also when building
\* the document fails.
C11_ReportWrittenOnce ==
    /\ written <= 1
    /\ written = 1 => RecordsDone /\ ppc # "build" /\ ppc # "report"
    /\ (run_no > 0 /\ AppendedInRun /\ ppc \in {"ocr_call", "ocr", "idle"}) =>
          /\ written = 1
          /\ report = List(error_log)

\* The story of the current call holds everything the card loop emits.
StoryComplete ==
    run_no > 0 /\ RecordsDone

RECURSIVE SplitAtBreaks(_)
\* The story cut at its PageBreak blocks: one segment more than it has breaks.
SplitAtBreaks(blocks) ==
    LET at == {k \in 1 .. Len(blocks) : blocks[k].kind = "PageBreak"}
    IN  IF at = {} THEN <<blocks>>
        ELSE <<SubSeq(blocks, 1, SetMin(at) - 1)>>
                \o SplitAtBreaks(SubSeq(blocks, SetMin(at) + 1, Len(blocks)))

\* The red paragraph that stands for an image.
IsPlaceholder(b) ==
    /\ b.kind = "Paragraph"
    /\ b.style = "CardTextError"
    /\ b.text[1] \in {"undisplayable", "unloadable"}

RECURSIVE MediaRefs(_)
\* The file names the blocks refer to, as images or as placeholders, in order.
MediaRefs(blocks) ==
    IF blocks = <<>> THEN <<>>
    ELSE (IF Head(blocks).kind = "Image" THEN <<Head(blocks).text>>
          ELSE IF IsPlaceholder(Head(blocks)) THEN <<Head(blocks).text[2]>>
          ELSE <<>>) \o MediaRefs(Tail(blocks))

\* The blocks after a heading are the group of one role: the paragraph of
\* its text, then one image (with its small spacer) or one placeholder for
\* each of its references, in order.
IsGroup(blocks, images) ==
    /\ Len(blocks) >= 1
    /\ blocks[1].kind = "Paragraph"
    /\ blocks[1].style \in {"CardText", "CardTextError"}
    /\ ~IsPlaceholder(blocks[1])
    /\ MediaRefs(Tail(blocks)) = images
    /\ \A k \in 2 .. Len(blocks) :
          \/ /\ blocks[k].kind = "Image"
             /\ k < Len(blocks)
             /\ blocks[k + 1] = SpacerBlock("0.2cm")
          \/ /\ blocks[k] = SpacerBlock("0.2cm")
             /\ blocks[k - 1].kind = "Image"
          \/ IsPlaceholder(blocks[k])

\* The blocks of one record: question heading and group, the spacer, answer
\* heading and group.
IsRecordBlocks(blocks, record) ==
    LET spacers  == {k \in 1 .. Len(blocks) : blocks[k] = SpacerBlock("0.6cm")}
        headings == {k \in 1 .. Len(blocks) : blocks[k].style = "CardTitle"}
    IN  /\ Cardinality(spacers) = 1
        /\ LET s == SetMin(spacers)
           IN  /\ headings = {1, s + 1}
               /\ s + 1 <= Len(blocks)
               /\ blocks[1] = Heading("Otazka:")
               /\ blocks[s + 1] = Heading("Odpoved:")
               /\ IsGroup(SubSeq(blocks, 2, s - 1), record.q_images)
               /\ IsGroup(SubSeq(blocks, s + 2, Len(blocks)), record.a_images)

\* C12: for a list of n >= 1 records the story holds, for each record in list
\* order, the question heading and its group, a spacer, the answer heading and
\* its group; it holds exactly n - 1 PageBreak blocks, one after each record
\* but the last.
C12_BlockStructure ==
    StoryComplete =>
        LET n        == Len(cards_data)
            segments == SplitAtBreaks(story)
        IN  /\ n >= 1
            /\ Cardinality({k \in 1 .. Len(story) : story[k].kind = "PageBreak"}) = n - 1
            /\ Len(segments) = n
            /\ \A k \in 1 .. Len(segments) :
                  k <= n => IsRecordBlocks(segments[k], cards_data[k])
            /\ story[Len(story)].kind # "PageBreak"

\* Two records were assembled, the first of them with images in both groups,
\* and one PageBreak separates them.
C12_Witness ==
    /\ StoryComplete
    /\ ppc = "build"
    /\ Len(cards_data) = 2
    /\ cards_data[1].q_images # <<>>
    /\ cards_data[1].a_images # <<>>
    /\ \E k \in 2 .. Len(story) - 1 : story[k].kind = "PageBreak"
    /\ \E k \in 1 .. Len(story) : story[k].kind = "Image"
    /\ \E k \in 1 .. Len(story) : IsPlaceholder(story[k])

\* The note identity of the r-th record of the returned list.
IdentityAt(r) ==
    xresult.list[r].note_id

\* C13 (as claimed): the returned list holds the note identities in the
\* order in which each identity first occurs in the enumeration of the deck,
\* whatever the batch boundaries and whichever batches or items were skipped.
C13_FirstSeenOrder ==
    Returned =>
        \A r1, r2 \in 1 .. Len(xresult.list) :
            r1 < r2 =>
                /\ ItemsOf(IdentityAt(r1)) # {}
                /\ ItemsOf(IdentityAt(r2)) # {}
                /\ SetMin(ItemsOf(IdentityAt(r1))) < SetMin(ItemsOf(IdentityAt(r2)))

\* C13 (amended): the returned list holds the note identities in the order
\* of the first item of each identity that was delivered in an answered batch
\* with a note id and fields and whose roles resolve; the batch boundaries do
\* not change that order.
C13_FirstRecordedOrder ==
    Returned =>
        \A r1, r2 \in 1 .. Len(xresult.list) :
            r1 < r2 =>
                /\ Resolvable(IdentityAt(r1)) # {}
                /\ Resolvable(IdentityAt(r2)) # {}
                /\ SetMin(Resolvable(IdentityAt(r1))) < SetMin(Resolvable(IdentityAt(r2)))

\* Two identities were returned, and the one listed second occurs in the
\* enumeration before the one listed first.
C13_Witness ==
    /\ Returned
    /\ Len(xresult.list) = 2
    /\ SetMin(ItemsOf(IdentityAt(2))) < SetMin(ItemsOf(IdentityAt(1)))
    /\ SetMin(Resolvable(IdentityAt(1))) < SetMin(Resolvable(IdentityAt(2)))

=============================================================================
